---- MODULE Spec2Model ----
(***************************************************************************)
(* Knowledge-graph construction pipeline of chapter2/lesson11              *)
(* (knowledge_pipeline.py): the five LLM stages of InformationExtractor,   *)
(* the KnowledgeGraph multigraph (build, filter, alias merge, quality      *)
(* assessment) and the orchestration of run_demo_pipeline.                 *)
(*                                                                         *)
(* Conventions.  A Python str used as a predicate is a sequence of         *)
(* one-character strings, so that lower(), strip() and len() are computed. *)
(* CJK characters are written as their code points ("u662F" is one         *)
(* character).  Entity names are atomic strings; "" is the empty name.     *)
(* A JSON value returned by the model is [kind, d]: kind = "dict" with the *)
(* mapping d, or kind = "other" (array, string, number, null).  A field of *)
(* a JSON object is [tag, items, map]: a list, a dict or a "null" scalar.  *)
(* A Python call that may raise yields a record with a raised flag.        *)
(***************************************************************************)
EXTENDS Naturals, Sequences, FiniteSets, TLC

VARIABLES pc, calls, entered, exception,
          candidate_entities, candidate_triples, optimized_schema,
          refined_triples, filtered_count, role_analysis_result, entity_alias_map,
          final_kg, pre_linking_state, post_linking_state, report,
          applyCalls, saved, link_input,
          b_entities, b_triples, b_graph, b_raised, b_done,
          m_entities, m_triples, m_mapping, m_graph, m_prev, m_built,
          m_applied, m_error, m_quality,
          x_extraction, x_refinement, x_schema, x_entities, x_triples,
          x_valid, x_filtered, x_extracted, x_refined, x_raised

pipeVars == <<pc, calls, entered, exception,
              candidate_entities, candidate_triples, optimized_schema,
              refined_triples, filtered_count, role_analysis_result, entity_alias_map,
              final_kg, pre_linking_state, post_linking_state, report,
              applyCalls, saved, link_input>>
buildVars == <<b_entities, b_triples, b_graph, b_raised, b_done>>
mergeVars == <<m_entities, m_triples, m_mapping, m_graph, m_prev, m_built,
               m_applied, m_error, m_quality>>
extractorVars == <<x_extraction, x_refinement, x_schema, x_entities, x_triples,
                   x_valid, x_filtered, x_extracted, x_refined, x_raised>>
vars == <<pipeVars, buildVars, mergeVars, extractorVars>>

-----------------------------------------------------------------------------
(* Generic helpers *)

EmptyDict == [k \in {} |-> ""]

Range(s) == {s[i] : i \in 1..Len(s)}

RECURSIVE SeqsUpTo(_, _)
SeqsUpTo(S, n) ==
    IF n = 0 THEN {<<>>}
    ELSE LET shorter == SeqsUpTo(S, n - 1)
         IN shorter \cup {Append(s, x) : s \in {t \in shorter : Len(t) = n - 1}, x \in S}

(* dict.get(key, default) *)
Get(d, key, default) == IF key \in DOMAIN d THEN d[key] ELSE default

(* JSON values *)
JsonDict(d) == [kind |-> "dict", d |-> d]
JsonOther == [kind |-> "other", d |-> EmptyDict]
JList(items) == [tag |-> "list", items |-> items, map |-> EmptyDict]
JMap(m) == [tag |-> "dict", items |-> <<>>, map |-> m]
JNull == [tag |-> "null", items |-> <<>>, map |-> EmptyDict]

(* for x in field: a list yields its items, a dict its keys (strings, never
   dicts); a scalar raises TypeError *)
Iterable(field) == field.tag \in {"list", "dict"}

-----------------------------------------------------------------------------
(* str methods on predicates *)

LowerChar(c) ==
    CASE c = "I" -> "i" [] c = "S" -> "s" [] c = "B" -> "b" [] c = "E" -> "e"
      [] c = "L" -> "l" [] c = "O" -> "o" [] c = "N" -> "n" [] c = "G" -> "g"
      [] OTHER -> c

Lower(s) == [i \in 1..Len(s) |-> LowerChar(s[i])]

IsSpace(c) == c = " "

RECURSIVE LStrip(_)
LStrip(s) == IF s # <<>> /\ IsSpace(Head(s)) THEN LStrip(Tail(s)) ELSE s

RECURSIVE RStrip(_)
RStrip(s) ==
    IF s # <<>> /\ IsSpace(s[Len(s)]) THEN RStrip(SubSeq(s, 1, Len(s) - 1)) ELSE s

Strip(s) == RStrip(LStrip(s))

(* the list literal of line 557 *)
CopulaPredicates ==
    { <<"u662F">>, <<"i", "s">>, <<"b", "e">>, <<"u5C5E", "u4E8E">>,
      <<"b", "e", "l", "o", "n", "g">> }

-----------------------------------------------------------------------------
(* InformationExtractor *)

(* a retry: the request is sent twice *)
LogCallRetry(log, task_name) == Append(Append(log, task_name), task_name)

(* One chat.completions.create request per _call_llm (line 359). *)
LogCall(log, task_name) == Append(log, task_name)

(* _call_llm: raw is what the API does for this request.  status "error": the
   request raises; "nocontent": content is None or ""; "badjson": json.loads
   raises; "json": content parses to raw.value.  Every exception is caught
   and turned into {}. *)
CallLLM(raw) ==
    IF raw.status = "json" THEN raw.value ELSE JsonDict(EmptyDict)

(* A valid relation dict, reduced to the three fields the program reads. *)
Triple(r) == [subject |-> r.subject, predicate |-> r.predicate, object |-> r.object]

(* the predicate key not required *)
HasSubjectAndObject(t) == t.isDict /\ {"subject", "object"} \subseteq t.keys

(* isinstance(t, dict) and all(k in t for k in ['subject', 'predicate', 'object']) *)
HasTripleKeys(t) == t.isDict /\ {"subject", "predicate", "object"} \subseteq t.keys

(* the first entry of a name kept *)
PutEntityFirstWins(entities, ent) ==
    IF \E i \in 1..Len(entities) : entities[i].name = ent.name
    THEN entities
    ELSE Append(entities, ent)

(* entities[entity_name] = entity_data on an insertion-ordered dict *)
PutEntity(entities, ent) ==
    IF \E i \in 1..Len(entities) : entities[i].name = ent.name
    THEN [i \in 1..Len(entities) |->
             IF entities[i].name = ent.name THEN ent ELSE entities[i]]
    ELSE Append(entities, ent)

EntityData(e) ==
    [name |-> e.name,
     type |-> IF "type" \in e.keys THEN e.type ELSE "unknown",
     description |-> IF "description" \in e.keys THEN e.description ELSE "",
     attributes |-> IF "attributes" \in e.keys THEN e.attributes ELSE EmptyDict]

RECURSIVE ParseEntities(_, _)
ParseEntities(raw, entities) ==
    IF raw = <<>> THEN entities
    ELSE LET e == Head(raw)
         IN ParseEntities(Tail(raw),
                IF e.isDict /\ "name" \in e.keys
                THEN PutEntity(entities, EntityData(e)) ELSE entities)

RECURSIVE ParseRelations(_, _)
ParseRelations(raw, triples) ==
    IF raw = <<>> THEN triples
    ELSE LET r == Head(raw)
         IN ParseRelations(Tail(raw),
                IF HasTripleKeys(r) THEN Append(triples, Triple(r)) ELSE triples)

(* _parse_extraction_output *)
ParseExtractionOutput(data) ==
    IF data.kind # "dict"
    THEN [raised |-> FALSE, entities |-> <<>>, triples |-> <<>>]
    ELSE LET raw_entities == Get(data.d, "entities", JList(<<>>))
             raw_relations == Get(data.d, "relations", JList(<<>>))
         IN IF ~Iterable(raw_entities) \/ ~Iterable(raw_relations)
            THEN [raised |-> TRUE, entities |-> <<>>, triples |-> <<>>]
            ELSE [raised |-> FALSE,
                  entities |-> ParseEntities(
                      IF raw_entities.tag = "list" THEN raw_entities.items ELSE <<>>, <<>>),
                  triples |-> ParseRelations(
                      IF raw_relations.tag = "list" THEN raw_relations.items ELSE <<>>, <<>>)]

(* extract_candidates *)
ExtractCandidates(raw) == ParseExtractionOutput(CallLLM(raw))

(* optimize_ontology: response_data.get(...) on line 406 needs a dict *)
OptimizeOntology(raw) ==
    LET response_data == CallLLM(raw)
    IN IF response_data.kind # "dict"
       THEN [raised |-> TRUE, schema |-> EmptyDict]
       ELSE [raised |-> FALSE, schema |-> response_data.d]

(* refine_and_relabel *)
RefineAndRelabel(raw) ==
    LET response_data == CallLLM(raw)
        failed == [raised |-> TRUE, valid_triples |-> <<>>, filtered_count |-> 0]
    IN IF response_data.kind # "dict" THEN failed
       ELSE LET raw_refined == Get(response_data.d, "refined_triples", JList(<<>>))
            IN IF ~Iterable(raw_refined) THEN failed
               ELSE LET items == IF raw_refined.tag = "list" THEN raw_refined.items ELSE <<>>
                        valid == SelectSeq(items, HasTripleKeys)
                        n == IF raw_refined.tag = "list" THEN Len(items)
                             ELSE Cardinality(DOMAIN raw_refined.map)
                    IN [raised |-> FALSE,
                        valid_triples |-> [i \in 1..Len(valid) |-> Triple(valid[i])],
                        filtered_count |-> n - Len(valid)]

(* analyze_roles: response_data.get(...) on line 447 needs a dict *)
AnalyzeRoles(raw) ==
    LET response_data == CallLLM(raw)
    IN IF response_data.kind # "dict"
       THEN [raised |-> TRUE, result |-> EmptyDict]
       ELSE [raised |-> FALSE, result |-> response_data.d]

(* link_entities: alias_map.items() on line 469 needs a dict.  An alias map
   is the insertion-ordered sequence of its <<alias, canonical>> items. *)
LinkEntities(raw) ==
    LET response_data == CallLLM(raw)
        failed == [raised |-> TRUE, alias_map |-> <<>>]
    IN IF response_data.kind # "dict" THEN failed
       ELSE LET alias_map == Get(response_data.d, "alias_map", JMap(<<>>))
            IN IF alias_map.tag # "dict" THEN failed
               ELSE [raised |-> FALSE, alias_map |-> alias_map.map]

-----------------------------------------------------------------------------
(* KnowledgeGraph: an nx.MultiDiGraph.  nodes is the insertion-ordered       *)
(* sequence of [id, data]; edges is the insertion-ordered sequence of        *)
(* [source, target, key, predicate] with (source, target, key) unique.       *)

EmptyGraph == [nodes |-> <<>>, edges |-> <<>>]

NodeIds(G) == {G.nodes[i].id : i \in 1..Len(G.nodes)}

NodeIdSeq(G) == [i \in 1..Len(G.nodes) |-> G.nodes[i].id]

DataOf(G, n) == (CHOOSE x \in Range(G.nodes) : x.id = n).data

(* dict.update: the keys of new win *)
Update(old, new) ==
    [k \in DOMAIN old \cup DOMAIN new |-> IF k \in DOMAIN new THEN new[k] ELSE old[k]]

(* MultiDiGraph.add_node(n, **attr) *)
AddNode(G, n, attr) ==
    IF n \in NodeIds(G)
    THEN [G EXCEPT !.nodes = [i \in 1..Len(G.nodes) |->
              IF G.nodes[i].id = n
              THEN [id |-> n, data |-> Update(G.nodes[i].data, attr)]
              ELSE G.nodes[i]]]
    ELSE [G EXCEPT !.nodes = Append(G.nodes, [id |-> n, data |-> attr])]

KeysBetween(G, u, v) ==
    {e.key : e \in {x \in Range(G.edges) : x.source = u /\ x.target = v}}

(* MultiDiGraph.new_edge_key *)
NewEdgeKey(G, u, v) ==
    LET keydict == KeysBetween(G, u, v)
        n == Cardinality(keydict)
    IN CHOOSE key \in n..(2 * n) :
           key \notin keydict /\ \A j \in n..(key - 1) : j \in keydict

(* MultiDiGraph.add_edge(u, v, key, predicate=...): an existing key is updated
   in place *)
AddEdgeKeyed(G, u, v, key, predicate) ==
    LET G1 == IF u \in NodeIds(G) THEN G ELSE AddNode(G, u, EmptyDict)
        G2 == IF v \in NodeIds(G1) THEN G1 ELSE AddNode(G1, v, EmptyDict)
        e == [source |-> u, target |-> v, key |-> key, predicate |-> predicate]
    IN IF key \in KeysBetween(G2, u, v)
       THEN [G2 EXCEPT !.edges = [i \in 1..Len(G2.edges) |->
                IF G2.edges[i].source = u /\ G2.edges[i].target = v /\ G2.edges[i].key = key
                THEN e ELSE G2.edges[i]]]
       ELSE [G2 EXCEPT !.edges = Append(G2.edges, e)]

(* graph.add_edge(sub, obj, predicate=pred) *)
AddEdge(G, u, v, predicate) == AddEdgeKeyed(G, u, v, NewEdgeKey(G, u, v), predicate)

(* the predicate compared without lower() *)
ShouldFilterRelationCaseSensitive(subject, predicate, object) ==
    IF subject = object THEN TRUE
    ELSE IF predicate \in CopulaPredicates THEN TRUE
    ELSE IF Len(Strip(predicate)) <= 1 THEN TRUE
    ELSE FALSE

(* _should_filter_relation *)
ShouldFilterRelation(subject, predicate, object) ==
    IF subject = object THEN TRUE
    ELSE IF Lower(predicate) \in CopulaPredicates THEN TRUE
    ELSE IF Len(Strip(predicate)) <= 1 THEN TRUE
    ELSE FALSE

(* all([sub, pred, obj]): Python truthiness of the three strings *)
AllTruthy(triple) ==
    triple.subject # "" /\ triple.predicate # <<>> /\ triple.object # ""

EntityNames(entities) == {entities[i].name : i \in 1..Len(entities)}

(* add_node(name, type=..., description=..., **attributes) raises TypeError
   when attributes repeats the keyword type or description *)
AddEntityRaises(entity_data) ==
    DOMAIN entity_data.attributes \cap {"type", "description"} # {}

EntityNodeData(entity_data) ==
    Update([type |-> entity_data.type, description |-> entity_data.description],
           entity_data.attributes)

RECURSIVE AddEntityNodes(_, _)
AddEntityNodes(G, entities) ==
    IF entities = <<>> THEN G
    ELSE AddEntityNodes(AddNode(G, Head(entities).name, EntityNodeData(Head(entities))),
                        Tail(entities))

(* the membership test of line 532 left out: add_edge creates missing nodes *)
AddTripleEdgeUnchecked(G, names, triple) ==
    IF ~AllTruthy(triple) THEN G
    ELSE IF ShouldFilterRelation(triple.subject, triple.predicate, triple.object) THEN G
    ELSE AddEdge(G, triple.subject, triple.object, triple.predicate)

(* the edge of one triple, lines 523-533 *)
AddTripleEdge(G, names, triple) ==
    IF ~AllTruthy(triple) THEN G
    ELSE IF ShouldFilterRelation(triple.subject, triple.predicate, triple.object) THEN G
    ELSE IF triple.subject \in names /\ triple.object \in names
         THEN AddEdge(G, triple.subject, triple.object, triple.predicate)
         ELSE G

RECURSIVE AddTripleEdges(_, _, _)
AddTripleEdges(G, names, triples) ==
    IF triples = <<>> THEN G
    ELSE AddTripleEdges(AddTripleEdge(G, names, Head(triples)), names, Tail(triples))

(* build_from_entities_and_triples *)
BuildFromEntitiesAndTriples(G, entities, triples) ==
    IF \E i \in 1..Len(entities) : AddEntityRaises(entities[i])
    THEN LET bad == CHOOSE i \in 1..Len(entities) :
                        /\ AddEntityRaises(entities[i])
                        /\ \A j \in 1..(i - 1) : ~AddEntityRaises(entities[j])
         IN [raised |-> TRUE,
             graph |-> AddEntityNodes(G, SubSeq(entities, 1, bad - 1))]
    ELSE [raised |-> FALSE,
          graph |-> AddTripleEdges(AddEntityNodes(G, entities),
                                   EntityNames(entities), triples)]

-----------------------------------------------------------------------------
(* nx.relabel_nodes(graph, mapping, copy=False) *)

AliasKeys(mapping) == {mapping[i][1] : i \in 1..Len(mapping)}
AliasValues(mapping) == {mapping[i][2] : i \in 1..Len(mapping)}
AliasOf(mapping, k) == (CHOOSE p \in Range(mapping) : p[1] = k)[2]

RECURSIVE Distinct(_)
Distinct(s) ==
    IF s = <<>> THEN <<>>
    ELSE <<Head(s)>> \o SelectSeq(Distinct(Tail(s)), LAMBDA x : x # Head(s))

KeyOrders(S) ==
    {p \in [1..Cardinality(S) -> S] : \A i, j \in 1..Cardinality(S) : p[i] = p[j] => i = j}

IndexOf(p, x) == CHOOSE i \in 1..Len(p) : p[i] = x

(* The orders in which _relabel_inplace may visit the keys of mapping.  With
   disjoint old and new labels: the order of the graph's nodes.  Otherwise the
   reverse of a topological sort of the old -> new digraph (self-pairs
   removed), which puts every new label before the old labels mapped to it;
   which of these orders is taken depends on the library's sort, and there is
   none when the digraph has a cycle (NetworkXUnfeasible). *)
RelabelOrders(G, mapping) ==
    IF AliasKeys(mapping) \cap AliasValues(mapping) = {}
    THEN {SelectSeq(NodeIdSeq(G), LAMBDA n : n \in AliasKeys(mapping))}
    ELSE {p \in KeyOrders(AliasKeys(mapping)) :
            \A k \in AliasKeys(mapping) :
                LET new == AliasOf(mapping, k)
                IN (new # k /\ new \in AliasKeys(mapping))
                       => IndexOf(p, new) < IndexOf(p, k)}

RelabelRaises(G, mapping) == RelabelOrders(G, mapping) = {}

RECURSIVE GroupByTarget(_, _)
GroupByTarget(es, nbrs) ==
    IF nbrs = <<>> THEN <<>>
    ELSE SelectSeq(es, LAMBDA e : e.target = Head(nbrs)) \o GroupByTarget(es, Tail(nbrs))

RECURSIVE GroupBySource(_, _)
GroupBySource(es, nbrs) ==
    IF nbrs = <<>> THEN <<>>
    ELSE SelectSeq(es, LAMBDA e : e.source = Head(nbrs)) \o GroupBySource(es, Tail(nbrs))

(* G.edges(n, keys=True, data=True): by successor, then by key *)
OutEdges(G, n) ==
    LET es == SelectSeq(G.edges, LAMBDA e : e.source = n)
    IN GroupByTarget(es, Distinct([i \in 1..Len(es) |-> es[i].target]))

(* G.in_edges(n, keys=True, data=True): by predecessor, then by key *)
InEdges(G, n) ==
    LET es == SelectSeq(G.edges, LAMBDA e : e.target = n)
    IN GroupBySource(es, Distinct([i \in 1..Len(es) |-> es[i].source]))

(* "Ensure new edges won't overwrite existing ones": an edge whose key is
   taken in G between its new endpoints gets the next key that is free in G
   and not in seen *)
RECURSIVE Rekey(_, _, _, _)
Rekey(G, todo, seen, done) ==
    IF todo = <<>> THEN done
    ELSE LET e == Head(todo)
             taken == KeysBetween(G, e.source, e.target)
             Free(k) == k \notin taken /\ <<e.target, k>> \notin seen
             limit == e.key + Cardinality(taken) + Cardinality(seen) + 1
         IN IF e.key \in taken
            THEN LET new_key == CHOOSE k \in e.key..limit :
                                    Free(k) /\ \A j \in e.key..(k - 1) : ~Free(j)
                 IN Rekey(G, Tail(todo), seen \cup {<<e.target, new_key>>},
                          Append(done, [e EXCEPT !.key = new_key]))
            ELSE Rekey(G, Tail(todo), seen, Append(done, e))

(* MultiDiGraph.remove_node *)
RemoveNode(G, n) ==
    [nodes |-> SelectSeq(G.nodes, LAMBDA x : x.id # n),
     edges |-> SelectSeq(G.edges, LAMBDA e : e.source # n /\ e.target # n)]

RECURSIVE AddEdgesFrom(_, _)
AddEdgesFrom(G, es) ==
    IF es = <<>> THEN G
    ELSE AddEdgesFrom(AddEdgeKeyed(G, Head(es).source, Head(es).target,
                                   Head(es).key, Head(es).predicate), Tail(es))

(* a merge that drops the edges between the alias and its canonical node *)
RelabelOneDropLoops(G, old, new) ==
    IF old \notin NodeIds(G) THEN G
    ELSE LET G1 == AddNode(G, new, DataOf(G, old))
         IN IF new = old THEN G1
            ELSE LET out == SelectSeq(OutEdges(G1, old), LAMBDA e : e.target # new)
                     inc == SelectSeq(InEdges(G1, old), LAMBDA e : e.source # new)
                     new_edges ==
                         [i \in 1..Len(out) |->
                             [out[i] EXCEPT !.source = new,
                                            !.target = IF out[i].target = old
                                                       THEN new ELSE out[i].target]]
                         \o
                         [i \in 1..Len(inc) |->
                             [inc[i] EXCEPT !.target = new,
                                            !.source = IF inc[i].source = old
                                                       THEN new ELSE inc[i].source]]
                 IN AddEdgesFrom(RemoveNode(G1, old), Rekey(G1, new_edges, {}, <<>>))

(* one iteration of the loop "for old in nodes" of _relabel_inplace *)
RelabelOne(G, old, new) ==
    IF old \notin NodeIds(G) THEN G
    ELSE LET G1 == AddNode(G, new, DataOf(G, old))
         IN IF new = old THEN G1
            ELSE LET out == OutEdges(G1, old)
                     inc == InEdges(G1, old)
                     new_edges ==
                         [i \in 1..Len(out) |->
                             [out[i] EXCEPT !.source = new,
                                            !.target = IF out[i].target = old
                                                       THEN new ELSE out[i].target]]
                         \o
                         [i \in 1..Len(inc) |->
                             [inc[i] EXCEPT !.target = new,
                                            !.source = IF inc[i].source = old
                                                       THEN new ELSE inc[i].source]]
                 IN AddEdgesFrom(RemoveNode(G1, old), Rekey(G1, new_edges, {}, <<>>))

RECURSIVE RelabelInOrder(_, _, _)
RelabelInOrder(G, mapping, order) ==
    IF order = <<>> THEN G
    ELSE RelabelInOrder(RelabelOne(G, Head(order), AliasOf(mapping, Head(order))),
                        mapping, Tail(order))

(* apply_entity_mapping, for one of RelabelOrders(G, mapping) *)
ApplyEntityMapping(G, mapping, order) == RelabelInOrder(G, mapping, order)

(* nodes_to_remove of line 567 *)
NodesToRemove(G, mapping) ==
    {p[1] : p \in {q \in Range(mapping) : q[1] # q[2] /\ q[1] \in NodeIds(G)}}

-----------------------------------------------------------------------------
(* assess_quality *)

(* the out-degree alone *)
OutDegree(G, n) == Len(SelectSeq(G.edges, LAMBDA e : e.source = n))

(* G.degree(n): in-degree plus out-degree, a self-loop counting twice *)
Degree(G, n) ==
    Len(SelectSeq(G.edges, LAMBDA e : e.source = n))
    + Len(SelectSeq(G.edges, LAMBDA e : e.target = n))

(* nx.isolates: nodes of degree 0 *)
Isolates(G) == SelectSeq(NodeIdSeq(G), LAMBDA n : Degree(G, n) = 0)

(* one entry per node that has a self-loop *)
SelfloopNodes(G) ==
    SelectSeq(NodeIdSeq(G),
              LAMBDA n : \E e \in Range(G.edges) : e.source = n /\ e.target = n)

(* nx.selfloop_edges: every keyed edge with source = target *)
SelfloopEdges(G) == SelectSeq(G.edges, LAMBDA e : e.source = e.target)

(* the successors alone *)
Successors(G, n) == {e.target : e \in {x \in Range(G.edges) : x.source = n}}

(* the neighbours of n in the undirected view of G *)
Neighbours(G, n) ==
    {e.target : e \in {x \in Range(G.edges) : x.source = n}}
    \cup {e.source : e \in {x \in Range(G.edges) : x.target = n}}

RECURSIVE WeakComponent(_, _)
WeakComponent(G, S) ==
    LET next == S \cup UNION {Neighbours(G, n) : n \in S}
    IN IF next = S THEN S ELSE WeakComponent(G, next)

(* nx.weakly_connected_components *)
WeaklyConnectedComponents(G) == {WeakComponent(G, {n}) : n \in NodeIds(G)}

(* every type counted once *)
TypeCountsOnce(G) ==
    LET typed == SelectSeq(G.nodes, LAMBDA x : "type" \in DOMAIN x.data)
    IN [t \in {typed[i].data["type"] : i \in 1..Len(typed)} |-> 1]

(* histograms of steps 3 and 4 *)
TypeCounts(G) ==
    LET typed == SelectSeq(G.nodes, LAMBDA x : "type" \in DOMAIN x.data)
    IN [t \in {typed[i].data["type"] : i \in 1..Len(typed)} |->
           Len(SelectSeq(typed, LAMBDA x : x.data["type"] = t))]

PredicateCounts(G) ==
    [p \in {G.edges[i].predicate : i \in 1..Len(G.edges)} |->
        Len(SelectSeq(G.edges, LAMBDA e : e.predicate = p))]

(* round(nx.density(G), 4) in ten-thousandths: m / (n * (n - 1)), rounded to
   the nearest, for n > 1 *)
DensityScale == 10000

(* the density truncated to 4 decimals *)
TruncatedDensity(m, n) == (DensityScale * m) \div (n * (n - 1))

RoundedDensity(m, n) ==
    ((2 * DensityScale * m) + (n * (n - 1))) \div (2 * n * (n - 1))

(* density < 0.1 *)
LowDensity(m, n) == 10 * m < n * (n - 1)

(* lines 573-583: the assessment returned for a graph without nodes *)
EmptyAssessment(G) ==
    [total_nodes |-> 0, total_edges |-> Len(G.edges),
     issues |-> <<[msg |-> "empty_graph", n |-> 0]>>,
     warnings |-> <<>>, stats |-> EmptyDict]

(* lines 585-624: steps 1 to 6 *)
FullAssessment(G) ==
    LET total_nodes == Len(G.nodes)
        total_edges == Len(G.edges)
        isolated_nodes == Isolates(G)
        self_loops == SelfloopEdges(G)
        components == WeaklyConnectedComponents(G)
        connected == Cardinality(components) = 1
    IN      [total_nodes |-> total_nodes, total_edges |-> total_edges,
             issues |->
                 IF isolated_nodes # <<>>
                 THEN <<[msg |-> "isolated_nodes", n |-> Len(isolated_nodes)]>>
                 ELSE <<>>,
             warnings |->
                 (IF self_loops # <<>>
                  THEN <<[msg |-> "self_loops", n |-> Len(self_loops)]>> ELSE <<>>)
                 \o (IF ~connected
                     THEN <<[msg |-> "not_connected", n |-> Cardinality(components)]>>
                     ELSE <<>>)
                 \o (IF total_nodes > 1 /\ LowDensity(total_edges, total_nodes)
                     THEN <<[msg |-> "low_density", n |-> 0]>> ELSE <<>>),
             stats |->
                 [k \in {"entity_type_distribution", "relation_type_distribution"}
                        \cup (IF isolated_nodes # <<>> THEN {"isolated_nodes"} ELSE {})
                        \cup (IF self_loops # <<>> THEN {"self_loops"} ELSE {})
                        \cup (IF ~connected THEN {"connected_components"} ELSE {})
                        \cup (IF total_nodes > 1 THEN {"graph_density"} ELSE {})
                  |-> CASE k = "isolated_nodes" -> Len(isolated_nodes)
                        [] k = "self_loops" -> Len(self_loops)
                        [] k = "connected_components" -> Cardinality(components)
                        [] k = "graph_density" -> RoundedDensity(total_edges, total_nodes)
                        [] k = "entity_type_distribution" -> TypeCounts(G)
                        [] OTHER -> PredicateCounts(G)]]

(* steps 1 to 6 whatever the number of nodes *)
AssessQualityNoEarlyReturn(G) == FullAssessment(G)

(* assess_quality *)
AssessQuality(G) ==
    IF Len(G.nodes) = 0 THEN EmptyAssessment(G) ELSE FullAssessment(G)

-----------------------------------------------------------------------------
(* run_demo_pipeline: where the run goes after each step *)

(* the test of line 796 left out *)
AfterExtractionUnchecked(triples) == "schema"

(* line 796: if not candidate_triples: return *)
AfterExtraction(triples) == IF triples = <<>> THEN "halted" ELSE "schema"

(* line 801: if not optimized_schema: return *)
AfterSchema(schema) == IF DOMAIN schema = {} THEN "halted" ELSE "refine"

(* the test of line 807 left out *)
AfterRefinementUnchecked(triples) == "roles"

(* line 807: if not refined_triples: return *)
AfterRefinement(triples) == IF triples = <<>> THEN "halted" ELSE "roles"

(* lines 812-814: the role analysis result is not tested *)
AfterRoles(result) == "link"

(* lines 820-821: the alias map is not tested before the build *)
AfterLinking(alias_map) == "build"

(* lines 826-829 *)
AfterBuild == "snapshot"

(* line 836: if entity_alias_map: *)
AfterSnapshot(alias_map) == IF alias_map # <<>> THEN "merge" ELSE "report"

(* lines 837-848 *)
AfterMerge == "report"

(* pre_linking_state / post_linking_state / final_graph of lines 829-863 *)
GraphState(G) ==
    [captured |-> TRUE, nodes |-> NodeIdSeq(G), edges |-> G.edges,
     quality |-> AssessQuality(G)]

NoGraphState ==
    [captured |-> FALSE, nodes |-> <<>>, edges |-> <<>>,
     quality |-> AssessQuality(EmptyGraph)]

-----------------------------------------------------------------------------
(* What the language model may answer: the inputs of the pipeline *)

MaxEntities == 2
MaxCandidates == 1
MaxRefined == 1
MaxAliases == 2

PipeNames == {"A", "B"}
Works == <<"w", "o", "r", "k", "s">>
Is == <<"I", "s">>
PipePredicates == {Works, Is}

Restrict(full, keys) == [k \in keys |-> full[k]]

Failures ==
    {[status |-> st, value |-> JsonDict(EmptyDict)] : st \in {"error", "nocontent", "badjson"}}

Answers(values) == Failures \cup {[status |-> "json", value |-> v] : v \in values}

NonDictItem(proto) == [proto EXCEPT !.isDict = FALSE, !.keys = {}]

EntityProto ==
    [isDict |-> TRUE, keys |-> {"name", "type", "description", "attributes"},
     name |-> "A", type |-> "Person", description |-> "d", attributes |-> EmptyDict]

PipeEntityItems ==
    {NonDictItem(EntityProto), [EntityProto EXCEPT !.keys = {"type"}]}
    \cup {[EntityProto EXCEPT !.name = n, !.attributes = a] :
             n \in PipeNames, a \in {EmptyDict, [type |-> "VIP"]}}

RelationProto ==
    [isDict |-> TRUE, keys |-> {"subject", "predicate", "object"},
     subject |-> "A", predicate |-> Works, object |-> "B"]

PipeCandidateItems == {NonDictItem(RelationProto), RelationProto}

PipeRefinedItems ==
    {[RelationProto EXCEPT !.keys = {"subject", "object"}]}
    \cup {[RelationProto EXCEPT !.subject = sub, !.predicate = pred, !.object = obj] :
             sub \in PipeNames, pred \in PipePredicates, obj \in PipeNames}

Fields(items, n) == {JNull} \cup {JList(l) : l \in SeqsUpTo(items, n)}

ExtractionAnswers ==
    Answers({JsonOther} \cup
            {JsonDict(Restrict([entities |-> e, relations |-> r], ks)) :
                e \in Fields(PipeEntityItems, MaxEntities),
                r \in Fields(PipeCandidateItems, MaxCandidates),
                ks \in SUBSET {"entities", "relations"}})

SchemaAnswers ==
    Answers({JsonOther,
             JsonDict([entities |-> <<>>, relations |-> <<>>, attributes |-> <<>>]),
             JsonDict([entities |-> <<"Person">>, relations |-> <<"works">>,
                       attributes |-> <<>>])})

RefinementAnswers ==
    Answers({JsonOther, JsonDict(EmptyDict)} \cup
            {JsonDict([refined_triples |-> f]) : f \in Fields(PipeRefinedItems, MaxRefined)})

RoleAnswers ==
    Answers({JsonOther,
             JsonDict([reasoning |-> "r", character_counts |-> [Person |-> 1]])})

AliasMaps ==
    {m \in SeqsUpTo(PipeNames \X PipeNames, MaxAliases) :
        \A i, j \in 1..Len(m) : m[i][1] = m[j][1] => i = j}

LinkAnswers ==
    Answers({JsonOther, JsonDict(EmptyDict), JsonDict([alias_map |-> JNull]),
             JsonDict([alias_map |-> JList(<<>>)])}
            \cup {JsonDict([alias_map |-> JMap(m)]) : m \in AliasMaps})

-----------------------------------------------------------------------------
(* run_demo_pipeline, one action per step.  pc is the position in the      *)
(* function; "halted" is an early return, "crashed" an exception that left *)
(* the function, "done" the end of the function.  calls is the sequence of *)
(* LLM requests sent, entered the sequence of steps begun.                 *)

BuildIdle ==
    /\ b_entities = <<>>
    /\ b_triples = <<>>
    /\ b_graph = EmptyGraph
    /\ b_raised = FALSE
    /\ b_done = FALSE

(* the report of a graph that has not been assessed since its last change *)
NotAssessed == [assessed |-> FALSE, result |-> AssessQuality(EmptyGraph)]

(* no KnowledgeGraph used on its own *)
MergeIdle ==
    /\ m_entities = <<>>
    /\ m_triples = <<>>
    /\ m_mapping = <<>>
    /\ m_graph = EmptyGraph
    /\ m_prev = EmptyGraph
    /\ m_built = FALSE
    /\ m_applied = 0
    /\ m_error = ""
    /\ m_quality = NotAssessed

(* no InformationExtractor method used on its own *)
ExtractorIdle ==
    /\ x_extraction = [status |-> "nocontent", value |-> JsonDict(EmptyDict)]
    /\ x_refinement = [status |-> "nocontent", value |-> JsonDict(EmptyDict)]
    /\ x_schema = EmptyDict
    /\ x_entities = <<>>
    /\ x_triples = <<>>
    /\ x_valid = <<>>
    /\ x_filtered = 0
    /\ x_extracted = FALSE
    /\ x_refined = FALSE
    /\ x_raised = FALSE

(* lines 819-820: link_entities(list(candidate_entities.keys()),
   role_analysis_result) *)
LinkInput(entities, roles) ==
    [called |-> TRUE,
     all_entity_names |-> [i \in 1..Len(entities) |-> entities[i].name],
     role_analysis |-> roles]

NoLinkInput == [called |-> FALSE, all_entity_names |-> <<>>, role_analysis |-> EmptyDict]

PipeInit ==
    /\ pc = "start"
    /\ calls = <<>>
    /\ entered = <<>>
    /\ exception = ""
    /\ candidate_entities = <<>>
    /\ candidate_triples = <<>>
    /\ optimized_schema = EmptyDict
    /\ refined_triples = <<>>
    /\ filtered_count = 0
    /\ role_analysis_result = EmptyDict
    /\ entity_alias_map = <<>>
    /\ final_kg = EmptyGraph
    /\ pre_linking_state = NoGraphState
    /\ post_linking_state = NoGraphState
    /\ report = NoGraphState
    /\ applyCalls = 0
    /\ saved = FALSE
    /\ link_input = NoLinkInput

Crash(step) ==
    /\ pc' = "crashed"
    /\ exception' = step

(* lines 785-788: the client cannot be initialised: return *)
Start ==
    /\ pc = "start"
    /\ \E ok \in BOOLEAN : pc' = IF ok THEN "extract" ELSE "halted"
    /\ UNCHANGED <<calls, entered, exception, candidate_entities, candidate_triples,
                   optimized_schema, refined_triples, role_analysis_result,
                   entity_alias_map, final_kg, pre_linking_state, post_linking_state,
                   report, applyCalls, saved>>
    /\ UNCHANGED <<filtered_count, link_input, buildVars, mergeVars, extractorVars>>

(* lines 795-796 *)
Extract ==
    /\ pc = "extract"
    /\ entered' = Append(entered, "extraction")
    /\ calls' = LogCall(calls, "Candidate Extraction")
    /\ \E raw \in ExtractionAnswers :
          LET r == ExtractCandidates(raw)
          IN IF r.raised
             THEN Crash("extraction") /\ UNCHANGED <<candidate_entities, candidate_triples>>
             ELSE /\ candidate_entities' = r.entities
                  /\ candidate_triples' = r.triples
                  /\ pc' = AfterExtraction(r.triples)
                  /\ UNCHANGED exception
    /\ UNCHANGED <<optimized_schema, refined_triples, role_analysis_result,
                   entity_alias_map, final_kg, pre_linking_state, post_linking_state,
                   report, applyCalls, saved>>
    /\ UNCHANGED <<filtered_count, link_input, buildVars, mergeVars, extractorVars>>

(* lines 800-801 *)
OptimizeSchema ==
    /\ pc = "schema"
    /\ entered' = Append(entered, "schema")
    /\ calls' = LogCall(calls, "Schema Optimization")
    /\ \E raw \in SchemaAnswers :
          LET r == OptimizeOntology(raw)
          IN IF r.raised
             THEN Crash("schema") /\ UNCHANGED optimized_schema
             ELSE /\ optimized_schema' = r.schema
                  /\ pc' = AfterSchema(r.schema)
                  /\ UNCHANGED exception
    /\ UNCHANGED <<candidate_entities, candidate_triples, refined_triples,
                   role_analysis_result, entity_alias_map, final_kg, pre_linking_state,
                   post_linking_state, report, applyCalls, saved>>
    /\ UNCHANGED <<filtered_count, link_input, buildVars, mergeVars, extractorVars>>

(* lines 806-807 *)
Refine ==
    /\ pc = "refine"
    /\ entered' = Append(entered, "refinement")
    /\ calls' = LogCall(calls, "Refinement and Relabeling")
    /\ \E raw \in RefinementAnswers :
          LET r == RefineAndRelabel(raw)
          IN IF r.raised
             THEN Crash("refinement") /\ UNCHANGED <<refined_triples, filtered_count>>
             ELSE /\ refined_triples' = r.valid_triples
                  /\ filtered_count' = r.filtered_count
                  /\ pc' = AfterRefinement(r.valid_triples)
                  /\ UNCHANGED exception
    /\ UNCHANGED <<candidate_entities, candidate_triples, optimized_schema,
                   role_analysis_result, entity_alias_map, final_kg, pre_linking_state,
                   post_linking_state, report, applyCalls, saved>>
    /\ UNCHANGED <<link_input, buildVars, mergeVars, extractorVars>>

(* lines 812-814 *)
RoleAnalysis ==
    /\ pc = "roles"
    /\ entered' = Append(entered, "roles")
    /\ calls' = LogCall(calls, "Role Analysis")
    /\ \E raw \in RoleAnswers :
          LET r == AnalyzeRoles(raw)
          IN IF r.raised
             THEN Crash("roles") /\ UNCHANGED role_analysis_result
             ELSE /\ role_analysis_result' = r.result
                  /\ pc' = AfterRoles(r.result)
                  /\ UNCHANGED exception
    /\ UNCHANGED <<candidate_entities, candidate_triples, optimized_schema,
                   refined_triples, entity_alias_map, final_kg, pre_linking_state,
                   post_linking_state, report, applyCalls, saved>>
    /\ UNCHANGED <<filtered_count, link_input, buildVars, mergeVars, extractorVars>>

(* lines 819-821 *)
Link ==
    /\ pc = "link"
    /\ entered' = Append(entered, "linking")
    /\ calls' = LogCall(calls, "Context-Aware Entity Linking")
    /\ link_input' = LinkInput(candidate_entities, role_analysis_result)
    /\ \E raw \in LinkAnswers :
          LET r == LinkEntities(raw)
          IN IF r.raised
             THEN Crash("linking") /\ UNCHANGED entity_alias_map
             ELSE /\ entity_alias_map' = r.alias_map
                  /\ pc' = AfterLinking(r.alias_map)
                  /\ UNCHANGED exception
    /\ UNCHANGED <<candidate_entities, candidate_triples, optimized_schema,
                   refined_triples, role_analysis_result, final_kg, pre_linking_state,
                   post_linking_state, report, applyCalls, saved>>
    /\ UNCHANGED <<filtered_count, buildVars, mergeVars, extractorVars>>

(* lines 825-826 *)
Build ==
    /\ pc = "build"
    /\ entered' = Append(entered, "build")
    /\ LET r == BuildFromEntitiesAndTriples(EmptyGraph, candidate_entities, refined_triples)
       IN /\ final_kg' = r.graph
          /\ IF r.raised THEN Crash("build")
             ELSE pc' = AfterBuild /\ UNCHANGED exception
    /\ UNCHANGED <<calls, candidate_entities, candidate_triples, optimized_schema,
                   refined_triples, role_analysis_result, entity_alias_map,
                   pre_linking_state, post_linking_state, report, applyCalls, saved>>
    /\ UNCHANGED <<filtered_count, link_input, buildVars, mergeVars, extractorVars>>

(* lines 829-836 *)
Snapshot ==
    /\ pc = "snapshot"
    /\ pre_linking_state' = GraphState(final_kg)
    /\ pc' = AfterSnapshot(entity_alias_map)
    /\ UNCHANGED <<calls, entered, exception, candidate_entities, candidate_triples,
                   optimized_schema, refined_triples, role_analysis_result,
                   entity_alias_map, final_kg, post_linking_state, report,
                   applyCalls, saved>>
    /\ UNCHANGED <<filtered_count, link_input, buildVars, mergeVars, extractorVars>>

(* lines 837-846 *)
Merge ==
    /\ pc = "merge"
    /\ applyCalls' = applyCalls + 1
    /\ IF RelabelRaises(final_kg, entity_alias_map)
       THEN Crash("merge") /\ UNCHANGED <<final_kg, post_linking_state>>
       ELSE /\ \E order \in RelabelOrders(final_kg, entity_alias_map) :
                 final_kg' = ApplyEntityMapping(final_kg, entity_alias_map, order)
            /\ post_linking_state' = GraphState(final_kg')
            /\ pc' = AfterMerge
            /\ UNCHANGED exception
    /\ UNCHANGED <<calls, entered, candidate_entities, candidate_triples,
                   optimized_schema, refined_triples, role_analysis_result,
                   entity_alias_map, pre_linking_state, report, saved>>
    /\ UNCHANGED <<filtered_count, link_input, buildVars, mergeVars, extractorVars>>

(* lines 848-874: final report, summary, visualisation and save *)
Report ==
    /\ pc = "report"
    /\ entered' = Append(entered, "assessment")
    /\ report' = GraphState(final_kg)
    /\ saved' = TRUE
    /\ pc' = "done"
    /\ UNCHANGED <<calls, exception, candidate_entities, candidate_triples,
                   optimized_schema, refined_triples, role_analysis_result,
                   entity_alias_map, final_kg, pre_linking_state, post_linking_state,
                   applyCalls>>
    /\ UNCHANGED <<filtered_count, link_input, buildVars, mergeVars, extractorVars>>

Next ==
    \/ Start
    \/ Extract
    \/ OptimizeSchema
    \/ Refine
    \/ RoleAnalysis
    \/ Link
    \/ Build
    \/ Snapshot
    \/ Merge
    \/ Report

Init == PipeInit /\ BuildIdle /\ MergeIdle /\ ExtractorIdle

Spec == Init /\ [][Next]_vars

-----------------------------------------------------------------------------
(* Properties of run_demo_pipeline *)

StageOrder ==
    <<"extraction", "schema", "refinement", "roles", "linking", "build", "assessment">>

CallOrder ==
    <<"Candidate Extraction", "Schema Optimization", "Refinement and Relabeling",
      "Role Analysis", "Context-Aware Entity Linking">>

NumLLMStages == Len(CallOrder)

Min(a, b) == IF a < b THEN a ELSE b

Began(step) == step \in Range(entered)

(* the step was begun and returned without raising *)
Returned(step) == Began(step) /\ exception # step

Ended == pc \in {"halted", "crashed", "done"}

BuiltGraph ==
    BuildFromEntitiesAndTriples(EmptyGraph, candidate_entities, refined_triples).graph

NothingBuilt ==
    /\ final_kg = EmptyGraph
    /\ ~pre_linking_state.captured
    /\ ~report.captured
    /\ applyCalls = 0
    /\ ~saved

(* C1: the steps are begun in the order extraction, schema optimization,
   refinement, role analysis, entity linking, build, assessment, none twice;
   every LLM stage begun has sent exactly one request, in that order; a run
   that is done has begun all seven steps and sent exactly five requests. *)
C1_StagesInOrderOneCallEach ==
    /\ entered = SubSeq(StageOrder, 1, Len(entered))
    /\ calls = SubSeq(CallOrder, 1, Min(Len(entered), NumLLMStages))
    /\ pc = "done" => (entered = StageOrder /\ calls = CallOrder)

C1_Witness == pc = "done" /\ Len(calls) = NumLLMStages /\ applyCalls = 1

(* C2: when extraction returns zero triples the run halts there: no later
   step is begun, one request only was sent, nothing is built, assessed or
   saved, however many entities were extracted. *)
C2_NoTriplesHalts ==
    (Returned("extraction") /\ candidate_triples = <<>>)
        => /\ pc = "halted"
           /\ entered = <<"extraction">>
           /\ calls = <<"Candidate Extraction">>
           /\ NothingBuilt

C2_Witness ==
    /\ pc = "halted"
    /\ Returned("extraction")
    /\ candidate_triples = <<>>
    /\ Len(candidate_entities) = 2

(* a schema that lists no entity, relation or attribute type *)
NoTypes(schema) ==
    \A k \in {"entities", "relations", "attributes"} : Get(schema, k, <<>>) = <<>>

(* C3: when schema optimization returns a schema with no entity, relation
   or attribute types (empty or absent) the run halts there: refinement, role
   analysis, linking and build are never begun. *)
C3_EmptySchemaHalts ==
    (Returned("schema") /\ NoTypes(optimized_schema))
        => /\ pc = "halted"
           /\ entered = <<"extraction", "schema">>
           /\ NothingBuilt

(* C4: when refinement yields zero valid triples (none returned, or every
   returned one lacks a field) the run halts there: role analysis, linking
   and build are never begun and no graph is produced. *)
C4_NoValidTriplesHalts ==
    (Returned("refinement") /\ refined_triples = <<>>)
        => /\ pc = "halted"
           /\ entered = <<"extraction", "schema", "refinement">>
           /\ Len(calls) = 3
           /\ NothingBuilt

C4_Witness ==
    /\ pc = "halted"
    /\ Returned("refinement")
    /\ refined_triples = <<>>
    /\ filtered_count = 1

(* C5: once refinement has succeeded, a run whose role analysis and entity
   linking both return empty results ends done, with linking begun, the graph
   built and assessed. *)
C5_EmptyRolesAndLinksReachDone ==
    ( /\ Ended
      /\ Returned("refinement") /\ refined_triples # <<>>
      /\ Returned("roles") /\ role_analysis_result = EmptyDict
      /\ Returned("linking") /\ entity_alias_map = <<>> )
        => /\ pc = "done"
           /\ Began("build")
           /\ report.captured

(* C6: no exception raised while a stage obtains or parses its response
   leaves the pipeline: no LLM stage ends the run with an exception. *)
C6_NoStageExceptionEscapes ==
    exception \notin {"extraction", "schema", "refinement", "roles", "linking"}

(* C7: whenever the build step is reached, build and quality assessment are
   executed; apply_entity_mapping is called iff the alias map is non-empty;
   with an empty alias map the graph at the end is the graph build made. *)
C7_BuildAndAssessAlwaysRun ==
    (Began("build") /\ Ended)
        => /\ exception # "build"
           /\ pre_linking_state.captured
           /\ report.captured
           /\ (applyCalls > 0) <=> (entity_alias_map # <<>>)
           /\ (entity_alias_map = <<>>) => (final_kg = BuiltGraph)

(* C8: in every run that reaches the build step the pre-merge snapshot is
   captured after build and before any call of apply_entity_mapping, also
   with an empty alias map, and holds the nodes, edges and quality report of
   the graph as built. *)
C8_SnapshotBeforeMerge ==
    /\ (applyCalls > 0 \/ pc \in {"merge", "report", "done"})
           => pre_linking_state = GraphState(BuiltGraph)
    /\ (Began("build") /\ Ended) => pre_linking_state = GraphState(BuiltGraph)

-----------------------------------------------------------------------------
(* KnowledgeGraph().build_from_entities_and_triples(entities, triples) on   *)
(* its own: the inputs are drawn in the initial state, BuildGraph applies   *)
(* the method to a new graph.                                               *)

MaxBuildEntities == 2
MaxBuildTriples == 2

BuildNames == {"", "A", "B"}

BuildPredicates ==
    { <<>>, <<"u662F">>, <<"I", "s">>, <<"b", "e">>, <<"u5C5E", "u4E8E">>,
      <<"B", "e", "l", "o", "n", "g">>, <<" ", "x", " ">>, <<" ", "i", "s">>,
      <<"o", "f">>, Works }

BuildEntityItems ==
    {[name |-> n, type |-> "Person", description |-> "d", attributes |-> EmptyDict] :
        n \in BuildNames}
    \cup {[name |-> "A", type |-> "Person", description |-> "d",
           attributes |-> [type |-> "VIP"]]}

BuildEntityMaps ==
    {m \in SeqsUpTo(BuildEntityItems, MaxBuildEntities) :
        \A i, j \in 1..Len(m) : m[i].name = m[j].name => i = j}

BuildTriples ==
    {[subject |-> sub, predicate |-> Works, object |-> obj] :
        sub \in BuildNames, obj \in BuildNames}
    \cup {[subject |-> "A", predicate |-> pred, object |-> obj] :
             pred \in BuildPredicates, obj \in {"A", "B"}}

BuildInit ==
    /\ b_entities \in BuildEntityMaps
    /\ b_triples \in SeqsUpTo(BuildTriples, MaxBuildTriples)
    /\ b_graph = EmptyGraph
    /\ b_raised = FALSE
    /\ b_done = FALSE

BuildGraph ==
    /\ ~b_done
    /\ LET r == BuildFromEntitiesAndTriples(b_graph, b_entities, b_triples)
       IN /\ b_graph' = r.graph
          /\ b_raised' = r.raised
    /\ b_done' = TRUE
    /\ UNCHANGED <<b_entities, b_triples, pipeVars, mergeVars, extractorVars>>

InitBuild == PipeInit /\ BuildInit /\ MergeIdle /\ ExtractorIdle

NextBuild == BuildGraph

SpecBuild == InitBuild /\ [][NextBuild]_vars

-----------------------------------------------------------------------------
(* Properties of build_from_entities_and_triples *)

(* the three reasons for which a triple is excluded from the graph *)
SelfLoop(t) == t.subject = t.object
CopulaWord(pred) == \E c \in CopulaPredicates : Lower(pred) = Lower(c)
TooShort(pred) == Len(Strip(pred)) <= 1
PassesFilter(t) == ~SelfLoop(t) /\ ~CopulaWord(t.predicate) /\ ~TooShort(t.predicate)

EdgeOf(t) == <<t.subject, t.object, t.predicate>>
EdgeLabel(e) == <<e.source, e.target, e.predicate>>

(* how many triples of the list that pass the filter give the edge x *)
PassingTriples(triples, x) ==
    Len(SelectSeq(triples, LAMBDA t : EdgeOf(t) = x /\ PassesFilter(t)))

EdgesLabelled(G, x) == Len(SelectSeq(G.edges, LAMBDA e : EdgeLabel(e) = x))

BetweenEntities(triples, entities) ==
    \A i \in 1..Len(triples) :
        /\ triples[i].subject \in EntityNames(entities)
        /\ triples[i].object \in EntityNames(entities)

(* C9: for every entity map and every triple list between entity names,
   build on an empty graph yields |entities| nodes and one edge per triple
   that passes the filter, parallel and duplicate edges included. *)
C9_OneNodePerEntityOneEdgePerTriple ==
    (b_done /\ BetweenEntities(b_triples, b_entities))
        => /\ ~b_raised
           /\ Len(b_graph.nodes) = Len(b_entities)
           /\ Len(b_graph.edges) = Len(SelectSeq(b_triples, PassesFilter))
           /\ \A x \in {EdgeOf(t) : t \in Range(b_triples)} :
                  EdgesLabelled(b_graph, x) = PassingTriples(b_triples, x)

(* C10: build creates no edge from a triple whose subject equals its
   object, whose predicate is case-insensitively a copula word, or whose
   trimmed predicate has at most one character: after build every edge
   comes from a triple of the input, joins two different nodes and carries
   none of these predicates. *)
C10_NoFilteredEdge ==
    b_done =>
        \A e \in Range(b_graph.edges) :
            /\ e.source # e.target
            /\ ~CopulaWord(e.predicate)
            /\ ~TooShort(e.predicate)
            /\ \E t \in Range(b_triples) : EdgeOf(t) = EdgeLabel(e)

C10_Witness ==
    /\ b_done
    /\ ~b_raised
    /\ Len(b_graph.edges) = 1
    /\ {"A", "B"} \subseteq EntityNames(b_entities)
    /\ b_triples[1] = [subject |-> "A", predicate |-> Is, object |-> "B"]
    /\ Len(b_triples) = 2

-----------------------------------------------------------------------------
(* A KnowledgeGraph used on its own: build_from_entities_and_triples, then  *)
(* apply_entity_mapping with one alias map, once or again, and              *)
(* assess_quality at any moment.  The inputs are drawn in the initial state. *)

MaxMergeEntities == 3
MaxMergeTriples == 2
MaxApplications == 2

MergeNames == <<"A", "B", "C">>

Knows == <<"k", "n", "o", "w", "s">>

(* an entity, with a type and a description of its own *)
MergeEntity(n) ==
    [name |-> n,
     type |-> CASE n = "A" -> "Person" [] n = "B" -> "Manager" [] OTHER -> "Person",
     description |-> CASE n = "A" -> "dA" [] n = "B" -> "dB" [] OTHER -> "dC",
     attributes |-> EmptyDict]

(* entities.items(): the first names of MergeNames, in any order *)
MergeEntityMaps ==
    {m \in SeqsUpTo({MergeEntity(n) : n \in Range(MergeNames)}, MaxMergeEntities) :
        /\ \A i, j \in 1..Len(m) : m[i].name = m[j].name => i = j
        /\ EntityNames(m) = {MergeNames[i] : i \in 1..Len(m)}}

(* "X" is never an entity name *)
MergeTriples ==
    {[subject |-> "A", predicate |-> Works, object |-> "B"],
     [subject |-> "B", predicate |-> Works, object |-> "A"],
     [subject |-> "B", predicate |-> Knows, object |-> "A"],
     [subject |-> "A", predicate |-> Works, object |-> "C"],
     [subject |-> "B", predicate |-> Works, object |-> "C"],
     [subject |-> "A", predicate |-> Works, object |-> "X"]}

(* the canonical names an alias may be given; "D" is never a node *)
MergeCanonicals(alias) ==
    CASE alias = "A" -> {"A", "B"}
      [] alias = "B" -> {"A", "D"}
      [] OTHER -> {"A", "B"}

(* mapping.items() of a dict with the keys K; the order of the items plays no
   part in relabel_nodes (see RelabelOrders) *)
MergeMappings ==
    UNION {
        {[i \in 1..Len(SelectSeq(MergeNames, LAMBDA n : n \in K)) |->
            <<SelectSeq(MergeNames, LAMBDA n : n \in K)[i],
              f[SelectSeq(MergeNames, LAMBDA n : n \in K)[i]]>>] :
         f \in {g \in [K -> {"A", "B", "D"}] : \A k \in K : g[k] \in MergeCanonicals(k)}} :
        K \in SUBSET Range(MergeNames)}

MergeInit ==
    /\ m_entities \in MergeEntityMaps
    /\ m_triples \in SeqsUpTo(MergeTriples, MaxMergeTriples)
    /\ m_mapping \in MergeMappings
    /\ m_graph = EmptyGraph
    /\ m_prev = EmptyGraph
    /\ m_built = FALSE
    /\ m_applied = 0
    /\ m_error = ""
    /\ m_quality = NotAssessed

(* kg.build_from_entities_and_triples(entities, triples) on the new graph *)
MergeBuild ==
    /\ ~m_built
    /\ m_error = ""
    /\ LET r == BuildFromEntitiesAndTriples(m_graph, m_entities, m_triples)
       IN /\ m_graph' = r.graph
          /\ m_error' = IF r.raised THEN "build" ELSE ""
    /\ m_built' = TRUE
    /\ m_quality' = NotAssessed
    /\ UNCHANGED <<m_entities, m_triples, m_mapping, m_prev, m_applied,
                   pipeVars, buildVars, extractorVars>>

(* kg.apply_entity_mapping(mapping); m_prev keeps the graph as it was before
   the call.  relabel_nodes raises before it changes anything. *)
MergeApply ==
    /\ m_built
    /\ m_error = ""
    /\ m_applied < MaxApplications
    /\ IF RelabelRaises(m_graph, m_mapping)
       THEN /\ m_error' = "apply"
            /\ UNCHANGED <<m_graph, m_prev, m_applied, m_quality>>
       ELSE /\ \E order \in RelabelOrders(m_graph, m_mapping) :
                   m_graph' = ApplyEntityMapping(m_graph, m_mapping, order)
            /\ m_prev' = m_graph
            /\ m_applied' = m_applied + 1
            /\ m_quality' = NotAssessed
            /\ UNCHANGED m_error
    /\ UNCHANGED <<m_entities, m_triples, m_mapping, m_built, pipeVars, buildVars, extractorVars>>

(* kg.assess_quality() *)
MergeAssess ==
    /\ ~m_quality.assessed
    /\ m_quality' = [assessed |-> TRUE, result |-> AssessQuality(m_graph)]
    /\ UNCHANGED <<m_entities, m_triples, m_mapping, m_graph, m_prev, m_built,
                   m_applied, m_error, pipeVars, buildVars, extractorVars>>

InitMerge == PipeInit /\ BuildIdle /\ MergeInit /\ ExtractorIdle

NextMerge == MergeBuild \/ MergeApply \/ MergeAssess

SpecMerge == InitMerge /\ [][NextMerge]_vars

-----------------------------------------------------------------------------
(* Properties of build followed by apply_entity_mapping *)

(* the graph is as build left it / has been through at least one merge *)
JustBuilt == m_built /\ m_applied = 0 /\ m_error = ""
Merged == m_applied >= 1

(* node -> attributes, and (source, target, predicate) -> multiplicity *)
NodeData(G) == [n \in NodeIds(G) |-> DataOf(G, n)]
EdgeCounts(G) ==
    [x \in {EdgeLabel(e) : e \in Range(G.edges)} |-> EdgesLabelled(G, x)]

SameGraph(G, H) == NodeData(G) = NodeData(H) /\ EdgeCounts(G) = EdgeCounts(H)

(* the pairs of the map that name two different nodes, the alias being a
   node of G *)
MergedPairs(G, mapping) ==
    {q \in Range(mapping) : q[1] # q[2] /\ q[1] \in NodeIds(G)}

(* the image of a name under the map: itself when it is not a key *)
Image(mapping, n) == IF n \in AliasKeys(mapping) THEN AliasOf(mapping, n) ELSE n

ImageLabel(mapping, e) ==
    <<Image(mapping, e.source), Image(mapping, e.target), e.predicate>>

(* how many edges of G have the label x once their endpoints are replaced by
   their images *)
ImagesLabelled(G, mapping, x) ==
    Len(SelectSeq(G.edges, LAMBDA e : ImageLabel(mapping, e) = x))

EdgesFromTo(G, u, v) == Len(SelectSeq(G.edges, LAMBDA e : e.source = u /\ e.target = v))

StrangerTriple(t) ==
    t.subject \notin EntityNames(m_entities) \/ t.object \notin EntityNames(m_entities)

(* C11: in every graph state, after build and after any alias application,
   both endpoints of every edge are nodes of the graph; right after build the
   nodes are exactly the entity names, every edge comes from a triple between
   two entity names, each such triple has its edge, and build has not
   raised: a triple naming a non-entity gives no edge, no node, no error. *)
C11_EdgeEndpointsAreNodes ==
    /\ \A e \in Range(m_graph.edges) :
           e.source \in NodeIds(m_graph) /\ e.target \in NodeIds(m_graph)
    /\ m_built => m_error # "build"
    /\ JustBuilt =>
           /\ NodeIds(m_graph) = EntityNames(m_entities)
           /\ Len(m_graph.edges) =
                  Len(SelectSeq(m_triples, LAMBDA t : ~StrangerTriple(t)))
           /\ \A e \in Range(m_graph.edges) :
                  \E t \in Range(m_triples) :
                      EdgeOf(t) = EdgeLabel(e) /\ ~StrangerTriple(t)

C11_Witness ==
    /\ Merged
    /\ Len(m_graph.edges) = 1
    /\ \E t \in Range(m_triples) : StrangerTriple(t) /\ t.subject \in NodeIds(m_graph)

(* C12: apply_entity_mapping is idempotent: applying the same map a second
   time leaves the node set, the node attributes and the multiset of
   (source, target, predicate) edges as the first application left them. *)
C12_ApplyIdempotent ==
    (m_applied = 2) => SameGraph(m_graph, m_prev)

(* C13: apply_entity_mapping preserves the total edge count: the graph has
   as many edges after the call as before it. *)
C13_MergeKeepsEdgeCount ==
    (m_applied = 1) => Len(m_graph.edges) = Len(m_prev.edges)

(* C14: after apply_entity_mapping every alias of the map that was a node
   and differs from its canonical name is no longer a node and its canonical
   name is one; when the canonical names were all nodes already the node
   count has dropped by the number of merged alias nodes. *)
C14_AliasGoneCanonicalPresent ==
    (m_applied = 1) =>
        LET pairs == MergedPairs(m_prev, m_mapping)
        IN /\ \A q \in pairs :
                  q[1] \notin NodeIds(m_graph) /\ q[2] \in NodeIds(m_graph)
           /\ (\A q \in pairs : q[2] \in NodeIds(m_prev))
                  => Len(m_graph.nodes) = Len(m_prev.nodes) - Cardinality(pairs)

(* C15: apply_entity_mapping transfers every edge with multiplicity and
   predicate: the multiset of (source, target, predicate) edges after the
   call is the multiset of the prior edges with each endpoint replaced by its
   image under the map. *)
C15_EdgesTransferred ==
    (m_applied = 1) =>
        /\ \A e \in Range(m_prev.edges) :
               EdgesLabelled(m_graph, ImageLabel(m_mapping, e))
                   = ImagesLabelled(m_prev, m_mapping, ImageLabel(m_mapping, e))
        /\ \A e \in Range(m_graph.edges) :
               EdgesLabelled(m_graph, EdgeLabel(e))
                   = ImagesLabelled(m_prev, m_mapping, EdgeLabel(e))

(* an alias and its canonical node, the only pair merged, each holding one
   edge to the other in the graph before the call *)
MutualPair(G, mapping, q) ==
    /\ MergedPairs(G, mapping) = {q}
    /\ q[2] \in NodeIds(G)
    /\ Image(mapping, q[2]) = q[2]
    /\ EdgesFromTo(G, q[1], q[2]) = 1
    /\ EdgesFromTo(G, q[2], q[1]) = 1

(* C16: merge does not filter self-loops: when an alias and its canonical
   node each hold an edge to the other, the merged graph has a self-loop on
   the canonical node, and assess_quality on it reports a self-loop count of
   exactly 1. *)
C16_MergeLeavesOneSelfLoop ==
    \A q \in Range(m_mapping) :
        (m_applied = 1 /\ MutualPair(m_prev, m_mapping, q)) =>
            /\ EdgesFromTo(m_graph, q[2], q[2]) = 1
            /\ Len(SelfloopEdges(m_graph)) = 1
            /\ m_quality.assessed =>
                   /\ Get(m_quality.result.stats, "self_loops", 0) = 1
                   /\ [msg |-> "self_loops", n |-> 1] \in Range(m_quality.result.warnings)

C16_Witness ==
    /\ m_applied = 1
    /\ m_quality.assessed
    /\ \E q \in Range(m_mapping) : MutualPair(m_prev, m_mapping, q)
    /\ Len(m_graph.nodes) = 2

(* C17: alias application changes node identity only: every node that is in
   the graph under the same name before and after the call, a canonical node
   that absorbed aliases included, has the same type, description and
   attributes after as before, and no relationship is deleted. *)
C17_SurvivorsKeepAttributes ==
    (m_applied = 1) =>
        /\ \A n \in NodeIds(m_prev) \cap NodeIds(m_graph) :
               DataOf(m_graph, n) = DataOf(m_prev, n)
        /\ Len(m_graph.edges) >= Len(m_prev.edges)

-----------------------------------------------------------------------------
(* Properties of assess_quality; m_quality.assessed says that the report is
   that of the graph as it is now *)

HasWarning(q, msg) == \E w \in Range(q.warnings) : w.msg = msg

(* d is m / (n * (n - 1)) in ten-thousandths, rounded to the nearest *)
IsRounded(d, m, n) ==
    /\ 2 * (n * (n - 1)) * d + (n * (n - 1)) >= 2 * DensityScale * m
    /\ 2 * DensityScale * m + (n * (n - 1)) >= 2 * (n * (n - 1)) * d

(* the nodes without any incident edge *)
Unconnected(G) ==
    {n \in NodeIds(G) : \A e \in Range(G.edges) : e.source # n /\ e.target # n}

(* C18: assess_quality on a graph with zero nodes returns total_nodes = 0
   and total_edges = 0, the empty-graph issue alone, no warnings and no stats
   entries: none of the later steps has run. *)
C18_EmptyGraphAssessment ==
    (m_quality.assessed /\ m_graph.nodes = <<>>) =>
        m_quality.result = [total_nodes |-> 0, total_edges |-> 0,
                            issues |-> <<[msg |-> "empty_graph", n |-> 0]>>,
                            warnings |-> <<>>, stats |-> EmptyDict]

C18_Witness ==
    /\ m_quality.assessed
    /\ m_built
    /\ m_graph.nodes = <<>>
    /\ m_triples # <<>>

(* the density of a graph with more than one node is reported rounded to 4
   decimals with the low-density warning iff 10 * edges < nodes * (nodes - 1);
   a graph with one node gets no density and no density warning *)
DensityReported ==
    m_quality.assessed =>
        LET q == m_quality.result
            n == Len(m_graph.nodes)
            m == Len(m_graph.edges)
        IN /\ n > 1 =>
                  /\ "graph_density" \in DOMAIN q.stats
                  /\ IsRounded(q.stats["graph_density"], m, n)
                  /\ HasWarning(q, "low_density") <=> (10 * m < n * (n - 1))
           /\ n = 1 =>
                  /\ "graph_density" \notin DOMAIN q.stats
                  /\ ~HasWarning(q, "low_density")

(* a report with density 0.5, no issues and no warnings *)
HalfDensityCleanReport ==
    /\ Get(m_quality.result.stats, "graph_density", 0) * 2 = DensityScale
    /\ m_quality.result.issues = <<>>
    /\ m_quality.result.warnings = <<>>

(* C19: for every graph with more than one node assess_quality reports the
   density edges / (nodes * (nodes - 1)) rounded to 4 decimals and warns of a
   low density iff the ratio is below 0.1; nothing of the two for a graph
   with one node; for 2 nodes joined by 1 edge the density is 0.5 and the
   report has no issues and no warnings. *)
C19_DensityAndWarning ==
    /\ DensityReported
    /\ ( /\ m_quality.assessed
         /\ Len(m_graph.nodes) = 2
         /\ Len(m_graph.edges) = 1
         /\ m_graph.edges[1].source # m_graph.edges[1].target )
           => HalfDensityCleanReport

C19_Witness ==
    /\ m_quality.assessed
    /\ Len(m_graph.nodes) = 3
    /\ Len(m_graph.edges) = 1
    /\ m_applied = 1

(* C19 as stated: the same, for every graph of 2 nodes and 1 edge. *)
C19_AnyTwoNodesOneEdge ==
    /\ DensityReported
    /\ (m_quality.assessed /\ Len(m_graph.nodes) = 2 /\ Len(m_graph.edges) = 1)
           => HalfDensityCleanReport

(* C20: for every non-empty graph assess_quality counts as isolated exactly
   the nodes with no incoming and no outgoing edge (a self-loop connects its
   node) and adds the isolated-nodes issue with that count iff the count is
   greater than 0. *)
C20_IsolatedNodes ==
    (m_quality.assessed /\ m_graph.nodes # <<>>) =>
        LET q == m_quality.result
            count == Cardinality(Unconnected(m_graph))
        IN /\ Range(Isolates(m_graph)) = Unconnected(m_graph)
           /\ count > 0 =>
                  /\ q.issues = <<[msg |-> "isolated_nodes", n |-> count]>>
                  /\ "isolated_nodes" \in DOMAIN q.stats
                  /\ q.stats["isolated_nodes"] = count
           /\ count = 0 =>
                  /\ q.issues = <<>>
                  /\ "isolated_nodes" \notin DOMAIN q.stats

C20_Witness ==
    /\ m_quality.assessed
    /\ Cardinality(Unconnected(m_graph)) = 1
    /\ SelfloopEdges(m_graph) # <<>>
    /\ Len(m_graph.nodes) = 2

(* the positions of the edges whose source is their target *)
LoopPositions(G) == {i \in 1..Len(G.edges) : G.edges[i].source = G.edges[i].target}

(* C21: for every non-empty graph assess_quality counts as self-loops
   exactly the edges whose source equals their target, parallel self-loops
   each counted, and adds the self-loop warning with that count iff the count
   is greater than 0. *)
C21_SelfLoopCount ==
    (m_quality.assessed /\ m_graph.nodes # <<>>) =>
        LET q == m_quality.result
            count == Cardinality(LoopPositions(m_graph))
        IN /\ count > 0 =>
                  /\ [msg |-> "self_loops", n |-> count] \in Range(q.warnings)
                  /\ "self_loops" \in DOMAIN q.stats
                  /\ q.stats["self_loops"] = count
           /\ count = 0 =>
                  /\ ~HasWarning(q, "self_loops")
                  /\ "self_loops" \notin DOMAIN q.stats

C21_Witness ==
    /\ m_quality.assessed
    /\ Cardinality(LoopPositions(m_graph)) = 2
    /\ Len(m_graph.nodes) = 1

(* u and v are joined by an edge, in either direction *)
Linked(G, u, v) ==
    \E e \in Range(G.edges) :
        (e.source = u /\ e.target = v) \/ (e.source = v /\ e.target = u)

(* the nodes at most k edges away from u, direction ignored *)
RECURSIVE WithinHops(_, _, _)
WithinHops(G, u, k) ==
    IF k = 0 THEN {u}
    ELSE LET near == WithinHops(G, u, k - 1)
         IN near \cup {v \in NodeIds(G) : \E w \in near : Linked(G, w, v)}

(* the classes of "joined by a path, direction ignored" *)
UndirectedClasses(G) == {WithinHops(G, u, Len(G.nodes)) : u \in NodeIds(G)}

(* C22: for every non-empty graph assess_quality warns of a lack of
   connectivity iff the graph, direction ignored, has more than one connected
   component, and reports the number of these components (an isolated node
   is a component of its own). *)
C22_ConnectivityWarning ==
    (m_quality.assessed /\ m_graph.nodes # <<>>) =>
        LET q == m_quality.result
            count == Cardinality(UndirectedClasses(m_graph))
        IN /\ count > 1 =>
                  /\ [msg |-> "not_connected", n |-> count] \in Range(q.warnings)
                  /\ "connected_components" \in DOMAIN q.stats
                  /\ q.stats["connected_components"] = count
           /\ count = 1 =>
                  /\ ~HasWarning(q, "not_connected")
                  /\ "connected_components" \notin DOMAIN q.stats

C22_Witness ==
    /\ m_quality.assessed
    /\ Len(m_graph.nodes) = 3
    /\ Len(m_graph.edges) = 1
    /\ Cardinality(UndirectedClasses(m_graph)) = 2
    /\ Cardinality(Unconnected(m_graph)) = 1

-----------------------------------------------------------------------------
(* InformationExtractor.extract_candidates and refine_and_relabel on their  *)
(* own: the answer of the model is drawn in the initial state, for one of    *)
(* the two methods; the other one gets an empty answer.                      *)

MaxExtractEntities == 3
MaxRefineItems == 3

NoAnswer == [status |-> "nocontent", value |-> JsonDict(EmptyDict)]

(* entities of the answer: two names, the name "A" with three different
   contents, an entity without a name, an item that is not an object *)
ExtractEntityItems ==
    {EntityProto,
     [EntityProto EXCEPT !.type = "Company", !.description = "e",
                         !.attributes = [role |-> "x"]],
     [EntityProto EXCEPT !.keys = {"name"}],
     [EntityProto EXCEPT !.name = "B"],
     [EntityProto EXCEPT !.keys = {"type"}],
     NonDictItem(EntityProto)}

ExtractInputs ==
    Answers({JsonOther, JsonDict([entities |-> JNull])} \cup
            {JsonDict([entities |-> JList(l), relations |-> JList(<<RelationProto>>)]) :
                l \in SeqsUpTo(ExtractEntityItems, MaxExtractEntities)})

(* the schema given to refine_and_relabel: "knows" is not a relation type *)
RefineSchema ==
    [entities |-> <<"Person">>, relations |-> <<Works>>, attributes |-> <<>>]

RefineItems ==
    {RelationProto,
     [RelationProto EXCEPT !.subject = "B", !.predicate = Knows, !.object = "A"],
     [RelationProto EXCEPT !.keys = {"subject", "object"}],
     [RelationProto EXCEPT !.keys = {"subject", "predicate"}],
     NonDictItem(RelationProto)}

RefineInputs ==
    Answers({JsonOther, JsonDict(EmptyDict), JsonDict([refined_triples |-> JNull])} \cup
            {JsonDict([refined_triples |-> JList(l)]) :
                l \in SeqsUpTo(RefineItems, MaxRefineItems)})

ExtractorInit ==
    /\ \/ x_extraction \in ExtractInputs /\ x_refinement = NoAnswer
       \/ x_extraction = NoAnswer /\ x_refinement \in RefineInputs
    /\ x_schema = RefineSchema
    /\ x_entities = <<>>
    /\ x_triples = <<>>
    /\ x_valid = <<>>
    /\ x_filtered = 0
    /\ x_extracted = FALSE
    /\ x_refined = FALSE
    /\ x_raised = FALSE

(* entities, triples = extractor.extract_candidates(text) *)
ExtractorExtract ==
    /\ ~x_extracted
    /\ ~x_raised
    /\ LET r == ExtractCandidates(x_extraction)
       IN /\ x_entities' = r.entities
          /\ x_triples' = r.triples
          /\ x_raised' = r.raised
    /\ x_extracted' = TRUE
    /\ UNCHANGED <<x_extraction, x_refinement, x_schema, x_valid, x_filtered, x_refined,
                   pipeVars, buildVars, mergeVars>>

(* valid = extractor.refine_and_relabel(triples, schema): triples and schema
   go into the prompt only *)
ExtractorRefine ==
    /\ ~x_refined
    /\ ~x_raised
    /\ LET r == RefineAndRelabel(x_refinement)
       IN /\ x_valid' = r.valid_triples
          /\ x_filtered' = r.filtered_count
          /\ x_raised' = r.raised
    /\ x_refined' = TRUE
    /\ UNCHANGED <<x_extraction, x_refinement, x_schema, x_entities, x_triples,
                   x_extracted, pipeVars, buildVars, mergeVars>>

InitExtractor == PipeInit /\ BuildIdle /\ MergeIdle /\ ExtractorInit

NextExtractor == ExtractorExtract \/ ExtractorRefine

SpecExtractor == InitExtractor /\ [][NextExtractor]_vars

-----------------------------------------------------------------------------
(* Properties of refine_and_relabel and _parse_extraction_output *)

(* the items of the list under key in a JSON answer, <<>> without such a list *)
ListUnder(raw, key) ==
    IF raw.status = "json" /\ raw.value.kind = "dict" /\ key \in DOMAIN raw.value.d
    THEN IF raw.value.d[key].tag = "list" THEN raw.value.d[key].items ELSE <<>>
    ELSE <<>>

HasListUnder(raw, key) ==
    /\ raw.status = "json" /\ raw.value.kind = "dict" /\ key \in DOMAIN raw.value.d
    /\ raw.value.d[key].tag = "list"

(* the positions of the items that carry subject, predicate and object *)
CompletePositions(items) ==
    {i \in 1..Len(items) :
        items[i].isDict /\ \A k \in {"subject", "predicate", "object"} : k \in items[i].keys}

(* the k-th smallest element of a set of positions *)
Kth(P, k) == CHOOSE p \in P : Cardinality({q \in P : q <= p}) = k

(* C23: refinement outputs exactly the returned triples that carry subject,
   predicate and object, in their order, whether or not the predicate is a
   relation type of the schema; the other returned items are dropped without
   an error, and the filtered count is the number of returned items minus
   the number of valid ones. *)
C23_RefinementKeepsCompleteTriples ==
    x_refined =>
        LET items == ListUnder(x_refinement, "refined_triples")
            P == CompletePositions(items)
        IN /\ HasListUnder(x_refinement, "refined_triples") => ~x_raised
           /\ ~x_raised =>
                  /\ Len(x_valid) = Cardinality(P)
                  /\ \A k \in 1..Len(x_valid) :
                         LET t == items[Kth(P, k)]
                         IN /\ x_valid[k].subject = t.subject
                            /\ x_valid[k].predicate = t.predicate
                            /\ x_valid[k].object = t.object
                  /\ x_filtered + Len(x_valid) = Len(items)

C23_Witness ==
    /\ x_refined
    /\ ~x_raised
    /\ Len(x_valid) = 2
    /\ x_filtered = 1
    /\ ~HasTripleKeys(ListUnder(x_refinement, "refined_triples")[2])
    /\ x_valid[1].predicate \notin Range(x_schema.relations)
    /\ x_valid[2].predicate \in Range(x_schema.relations)

(* the positions of the entities of the output that have a name field *)
NamedPositions(items) ==
    {i \in 1..Len(items) : items[i].isDict /\ "name" \in items[i].keys}

(* the last position at which the name n is given *)
LastNamed(items, n) ==
    CHOOSE i \in NamedPositions(items) :
        /\ items[i].name = n
        /\ \A j \in NamedPositions(items) : items[j].name = n => j <= i

(* C25: when the extraction output lists several entities with one name,
   the entity map holds exactly one entry for the name, with the type,
   description and attributes of the last of them (the defaults for the
   fields it lacks); entries without a name field are ignored. *)
C25_LastEntityWins ==
    (x_extracted /\ ~x_raised) =>
        LET items == ListUnder(x_extraction, "entities")
            names == {items[i].name : i \in NamedPositions(items)}
        IN /\ EntityNames(x_entities) = names
           /\ Len(x_entities) = Cardinality(names)
           /\ \A k \in 1..Len(x_entities) :
                  LET e == items[LastNamed(items, x_entities[k].name)]
                  IN /\ x_entities[k].type =
                            IF "type" \in e.keys THEN e.type ELSE "unknown"
                     /\ x_entities[k].description =
                            IF "description" \in e.keys THEN e.description ELSE ""
                     /\ x_entities[k].attributes =
                            IF "attributes" \in e.keys THEN e.attributes ELSE EmptyDict

C25_Witness ==
    /\ x_extracted
    /\ ~x_raised
    /\ Len(ListUnder(x_extraction, "entities")) = 3
    /\ ListUnder(x_extraction, "entities")[1] = EntityProto
    /\ "name" \notin ListUnder(x_extraction, "entities")[2].keys
    /\ Len(x_entities) = 1
    /\ x_entities[1].type = "Company"
    /\ x_entities[1].attributes = [role |-> "x"]

-----------------------------------------------------------------------------
(* Further properties of apply_entity_mapping and assess_quality *)

(* the nodes of G that the map does not mention *)
Bystanders(G, mapping) ==
    {n \in NodeIds(G) : n \notin AliasKeys(mapping) /\ n \notin AliasValues(mapping)}

(* C24: apply_entity_mapping raises no error and leaves unresolved every
   name that is not a key of the map and every key that is not a node: a node
   that is neither a key nor a value keeps its identity and attributes, the
   edges between two such nodes are unchanged, and no node is deleted except
   an alias merged into its canonical. *)
C24_UnmappedNamesUntouched ==
    /\ m_error # "apply"
    /\ (m_applied = 1) =>
           LET others == Bystanders(m_prev, m_mapping)
           IN /\ \A n \in others :
                     n \in NodeIds(m_graph) /\ DataOf(m_graph, n) = DataOf(m_prev, n)
              /\ \A e \in Range(m_prev.edges) \cup Range(m_graph.edges) :
                     (e.source \in others /\ e.target \in others) =>
                         EdgesLabelled(m_graph, EdgeLabel(e))
                             = EdgesLabelled(m_prev, EdgeLabel(e))
              /\ NodeIds(m_prev) \ NodeIds(m_graph)
                     \subseteq {q[1] : q \in MergedPairs(m_prev, m_mapping)}

(* C27: apply_entity_mapping completes without raising for every alias
   map, chains and cycles included, and after it returns no merged-away
   alias is a node. *)
C27_AnyMapAccepted ==
    /\ m_error # "apply"
    /\ (m_applied = 1) =>
           \A q \in MergedPairs(m_prev, m_mapping) : q[1] \notin NodeIds(m_graph)

(* the sum of the counts of a histogram *)
RECURSIVE SumOf(_)
SumOf(f) ==
    IF DOMAIN f = {} THEN 0
    ELSE LET k == CHOOSE x \in DOMAIN f : TRUE
         IN f[k] + SumOf([x \in DOMAIN f \ {k} |-> f[x]])

(* C29: in every non-empty graph reached by build and alias applications,
   the counts of the entity-type distribution of assess_quality sum to
   total_nodes and those of the relation-type distribution to total_edges:
   every node carries a type, every edge a predicate. *)
C29_DistributionsCoverGraph ==
    (m_quality.assessed /\ m_graph.nodes # <<>>) =>
        LET q == m_quality.result
        IN /\ q.total_nodes = Len(m_graph.nodes)
           /\ q.total_edges = Len(m_graph.edges)
           /\ SumOf(q.stats["entity_type_distribution"]) = q.total_nodes
           /\ SumOf(q.stats["relation_type_distribution"]) = q.total_edges
           /\ \A n \in NodeIds(m_graph) : "type" \in DOMAIN DataOf(m_graph, n)

C29_Witness ==
    /\ m_quality.assessed
    /\ m_applied = 1
    /\ Len(m_graph.nodes) = 3
    /\ Len(m_graph.edges) = 2
    /\ \E t \in DOMAIN m_quality.result.stats["entity_type_distribution"] :
           m_quality.result.stats["entity_type_distribution"][t] = 2
    /\ \E x \in DOMAIN m_quality.result.stats["relation_type_distribution"] :
           m_quality.result.stats["relation_type_distribution"][x] = 2
    /\ "D" \in NodeIds(m_graph)

-----------------------------------------------------------------------------
(* Further properties of run_demo_pipeline and of build *)

(* C26: the name list passed to the entity-linking stage is the list of the
   distinct candidate entity names of extraction, whatever triples survived
   refinement, together with the role-analysis result of the run; and the
   nodes of the graph at build are those candidate entities. *)
C26_LinkingGetsCandidateNames ==
    /\ Began("linking") =>
           /\ link_input.called
           /\ Range(link_input.all_entity_names) = EntityNames(candidate_entities)
           /\ Len(link_input.all_entity_names) = Cardinality(EntityNames(candidate_entities))
           /\ link_input.role_analysis = role_analysis_result
    /\ ~Began("linking") => ~link_input.called
    /\ Began("build") =>
           /\ exception # "build"
           /\ pc = "snapshot" => NodeIds(final_kg) = EntityNames(candidate_entities)

(* C28: a run that passes the three fatal checks builds a graph with at
   least one node and at least one edge: the pipeline is never done with an
   empty graph. *)
C28_DoneGraphNotEmpty ==
    (pc = "done") => (final_kg.nodes # <<>> /\ final_kg.edges # <<>>)

(* C30: build completes without error for every entity map, entities with an
   attribute named type or description included, and the node of every
   entity has the entity's own type and description. *)
C30_BuildKeepsTypeAndDescription ==
    b_done =>
        /\ ~b_raised
        /\ \A i \in 1..Len(b_entities) :
               /\ b_entities[i].name \in NodeIds(b_graph)
               /\ DataOf(b_graph, b_entities[i].name)["type"] = b_entities[i].type
               /\ DataOf(b_graph, b_entities[i].name)["description"]
                      = b_entities[i].description

====
